---- MODULE Spec2Model ----
(***************************************************************************)
(* Model of the drawing board: the element store (stores/drawing), the     *)
(* selection composable (composables/useSelection.ts) and the canvas       *)
(* component (DrawingCanvas.vue: history, pointer and keyboard handlers).  *)
(*                                                                         *)
(* Coordinates are integers (pixels).  Angles are counted in quarter turns *)
(* (1 = pi/2), for which sin and cos are exact; the pointer positions fed  *)
(* to a rotate gesture are those whose atan2 about the element's center is *)
(* a whole number of quarter turns.                                        *)
(*                                                                         *)
(* JavaScript objects have identity.  Every element record carries `ref`,  *)
(* the identity of the element object, and `pref`, the identity of its     *)
(* points array.  A write through one reference changes every holder of    *)
(* the same object, in the live collection and in the history stacks.      *)
(***************************************************************************)
EXTENDS Integers, Sequences, FiniteSets, TLC

\* ------------------------------------------------------------------ bounds
MaxEvents == 8
MaxIds == 2
CoordMin == 0
CoordMax == 80
MaxRot == 2
MaxPoints == 4
MaxSelectEvents == 11
MaxFreehandEvents == 8
MaxInterruptEvents == 8
MaxUpdateEvents == 7
MaxDegenerateEvents == 9
MaxEllipseEvents == 8

\* --------------------------------------------------------- program constants
RotateHandleOffset == 24
RotateHandleRadius == 10
AnchorRadius == 6
LineHitThreshold == 8
MinSize == 10
ScaleRate == 100
NoAnchor == -1
\* stands for the coordinate that is not a number
NaN == -1000

\* ------------------------------------------------------------------ inputs
Pt(x, y) == [x |-> x, y |-> y]

\* pointer positions delivered by mouse events
Pts == {Pt(20, 40), Pt(60, 80), Pt(40, 60), Pt(40, 16)}

\* pointer positions of the sessions that build and drag a multi-selection
PtsSelect == {Pt(20, 40), Pt(60, 80), Pt(40, 60)}

\* tools the toolbar or a caller of setCurrentTool can set
Tools == {"select", "line", "text"}

\* tools of the sessions that build and drag a multi-selection
ToolsSelect == {"select", "text"}

\* tools of the sessions that draw freehand strokes and shapes
ToolsFreehand == {"select", "freehand", "rectangle"}

\* tools of the sessions in which key chords interrupt gestures
ToolsInterrupt == {"select", "freehand", "line"}

\* tools of the sessions in which the store's updateElement is called
ToolsUpdate == {"select", "line", "text"}

\* partial updates handed to the store's updateElement
Updates == {[rotation |-> 1], [text |-> "a"], [rotation |-> 0, text |-> ""]}

\* tools of the sessions that draw and pick ellipses
ToolsEllipse == {"select", "ellipse"}

\* pointer positions of the sessions that draw and pick ellipses: two corners,
\* the center of the box they span, a point on its right side and the next one
PtsEllipse == {Pt(20, 40), Pt(60, 80), Pt(40, 60), Pt(60, 60), Pt(61, 60)}

\* pointer positions around a box without extent at (40, 40): the place of the
\* box, its rotate anchor and a place a quarter turn further
PtsDegenerate == {Pt(40, 40), Pt(40, 16), Pt(60, 40)}

\* contents typed into the text overlay
Contents == {"", "a"}

Null == <<>>
Some(v) == <<v>>
IsSet(o) == o # <<>>
Val(o) == o[1]

Min2(a, b) == IF a <= b THEN a ELSE b
Max2(a, b) == IF a >= b THEN a ELSE b
Abs(a) == IF a >= 0 THEN a ELSE -a
Sign(a) == IF a > 0 THEN 1 ELSE IF a < 0 THEN -1 ELSE 0
Last(s) == s[Len(s)]
Front(s) == SubSeq(s, 1, Len(s) - 1)

VARIABLES
    elements,              \* store.elements, in insertion order
    currentTool,           \* store.currentTool
    captured,              \* the array useSelection(store.elements) holds
    selectedIds,           \* useSelection.selectedIds
    resizing, resizeAnchor,
    isDrawing, startPoint, dragOffset, selectionBox,
    history, redoStack,
    rotating, rotateStartAngle, rotateStartRotation,
    textInput,
    nextId,                \* number of ids nanoid() has handed out
    events,                \* number of state-changing events still to be handled
    gesture,               \* bookkeeping of the current pointer gesture
    editing                \* bookkeeping: the id of the element the open overlay was opened for

vars == <<elements, currentTool, captured, selectedIds, resizing, resizeAnchor,
          isDrawing, startPoint, dragOffset, selectionBox, history, redoStack,
          rotating, rotateStartAngle, rotateStartRotation, textInput, nextId,
          events, gesture, editing>>

\* ------------------------------------------------------- object identities
\* S = [e |-> live elements, h |-> undo stack, r |-> redo stack]
Heap(e, h, r) == [e |-> e, h |-> h, r |-> r]

RECURSIVE FlatSnaps(_)
FlatSnaps(st) == IF st = <<>> THEN <<>> ELSE Head(st) \o FlatSnaps(Tail(st))

Flat(S) == S.e \o FlatSnaps(S.h) \o FlatSnaps(S.r)

\* the i-th object allocated by the k-th allocation site of a handler; no site
\* allocates as many as 1000 objects in one event
Fresh(k, i) == k * 1000 + i

FirstRef(f, r) == CHOOSE i \in 1..Len(f) : f[i].ref = r /\ \A j \in 1..(i - 1) : f[j].ref # r
FirstPref(f, r) == CHOOSE i \in 1..Len(f) : f[i].pref = r /\ \A j \in 1..(i - 1) : f[j].pref # r

\* Object identities are renamed to the position of their first holder, so
\* that two heaps of the same shape and sharing are the same state.
Renumber(S) ==
    LET f == Flat(S)
        ren(el) == [el EXCEPT !.ref = FirstRef(f, el.ref), !.pref = FirstPref(f, el.pref)]
        renList(es) == [i \in 1..Len(es) |-> ren(es[i])]
        renStack(st) == [i \in 1..Len(st) |-> renList(st[i])]
    IN Heap(renList(S.e), renStack(S.h), renStack(S.r))

\* a write to the element object `ref`, seen by every holder of that object
WriteObj(S, ref, Upd(_)) ==
    LET w(el) == IF el.ref = ref THEN Upd(el) ELSE el
        wList(es) == [i \in 1..Len(es) |-> w(es[i])]
        wStack(st) == [i \in 1..Len(st) |-> wList(st[i])]
    IN Heap(wList(S.e), wStack(S.h), wStack(S.r))

\* a write to index idx of the points array `pref`, seen by every holder
WriteArr(S, pref, idx, p) ==
    LET w(el) == IF el.pref = pref THEN [el EXCEPT !.points[idx] = p] ELSE el
        wList(es) == [i \in 1..Len(es) |-> w(es[i])]
        wStack(st) == [i \in 1..Len(st) |-> wList(st[i])]
    IN Heap(wList(S.e), wStack(S.h), wStack(S.r))

\* the value of an element list without the object identities
Strip(es) == [i \in 1..Len(es) |->
                [id |-> es[i].id, type |-> es[i].type, points |-> es[i].points,
                 rotation |-> es[i].rotation, text |-> es[i].text]]
StripStack(st) == [i \in 1..Len(st) |-> Strip(st[i])]

\* ---------------------------------------------------------------- history
\* variant: els.map(el => ({...el})), the points arrays stay shared
ShallowCopy(es, k) == [i \in 1..Len(es) |-> [es[i] EXCEPT !.ref = Fresh(k, i)]]

\* els.map(el => ({...el, points: el.points.map(p => ({...p}))}))
DeepCopy(es, k) == [i \in 1..Len(es) |-> [es[i] EXCEPT !.ref = Fresh(k, i), !.pref = Fresh(k, i)]]

\* variant: a push that leaves the redo stack alone
pushHistoryKeepRedo(S) == Heap(S.e, Append(S.h, DeepCopy(S.e, 1)), S.r)

pushHistory(S) == Heap(S.e, Append(S.h, DeepCopy(S.e, 1)), <<>>)

\* variant: undo installs the oldest snapshot
undoOldest(S) ==
    IF Len(S.h) > 0
    THEN Heap(DeepCopy(S.h[1], 3), Front(S.h), Append(S.r, DeepCopy(S.e, 2)))
    ELSE S

\* variant: undo reads the top snapshot without popping it
undoKeep(S) ==
    IF Len(S.h) > 0
    THEN Heap(DeepCopy(Last(S.h), 3), S.h, Append(S.r, DeepCopy(S.e, 2)))
    ELSE S

\* variant: undo without the length test saves the collection, pops nothing
undoUnguarded(S) ==
    IF Len(S.h) > 0
    THEN Heap(DeepCopy(Last(S.h), 3), Front(S.h), Append(S.r, DeepCopy(S.e, 2)))
    ELSE Heap(S.e, S.h, Append(S.r, DeepCopy(S.e, 2)))

undo(S) ==
    IF Len(S.h) > 0
    THEN Heap(DeepCopy(Last(S.h), 3), Front(S.h), Append(S.r, DeepCopy(S.e, 2)))
    ELSE S

\* variant: redo that does not save the collection on the undo stack
redoNoSave(S) ==
    IF Len(S.r) > 0
    THEN Heap(DeepCopy(Last(S.r), 5), S.h, Front(S.r))
    ELSE S

redo(S) ==
    IF Len(S.r) > 0
    THEN Heap(DeepCopy(Last(S.r), 5), Append(S.h, DeepCopy(S.e, 4)), Front(S.r))
    ELSE S

Idle == ~isDrawing /\ ~resizing /\ ~IsSet(dragOffset) /\ ~IsSet(selectionBox)

safePushHistory(S) == IF Idle THEN pushHistory(S) ELSE S

\* ------------------------------------------------------------------ store
RECURSIVE RemoveId(_, _)
RemoveId(es, id) ==
    IF es = <<>> THEN <<>>
    ELSE IF Head(es).id = id THEN Tail(es)
    ELSE <<Head(es)>> \o RemoveId(Tail(es), id)

RECURSIVE CutAtId(_, _)
CutAtId(es, id) ==
    IF es = <<>> THEN <<>>
    ELSE IF Head(es).id = id THEN <<>>
    ELSE <<Head(es)>> \o CutAtId(Tail(es), id)

\* variant: splice(index) without the count removes the tail as well
deleteElementTail(S, id) == Heap(CutAtId(S.e, id), S.h, S.r)

deleteElement(S, id) == Heap(RemoveId(S.e, id), S.h, S.r)

RECURSIVE DeleteAll(_, _)
DeleteAll(S, ids) ==
    IF ids = {} THEN S
    ELSE LET id == CHOOSE i \in ids : TRUE
         IN DeleteAll(deleteElement(S, id), ids \ {id})

SelectFilter(es, ids) == SelectSeq(es, LAMBDA el : el.id \in ids)
selectedElements == SelectFilter(elements, selectedIds)

\* --------------------------------------------------------------- geometry
\* cos and sin of k quarter turns
CosQ(k) == CASE k % 4 = 0 -> 1 [] k % 4 = 1 -> 0 [] k % 4 = 2 -> -1 [] OTHER -> 0
SinQ(k) == CASE k % 4 = 0 -> 0 [] k % 4 = 1 -> 1 [] k % 4 = 2 -> 0 [] OTHER -> -1

\* Math.atan2(dy, dx) in quarter turns, for the vectors where it is whole
OnAxis(dy, dx) == dx = 0 \/ dy = 0
Atan2Q(dy, dx) ==
    IF dy = 0 THEN (IF dx >= 0 THEN 0 ELSE 2)
    ELSE IF dy > 0 THEN 1 ELSE -1

rotatePoint(x, y, centerX, centerY, rotation) ==
    LET dx == x - centerX
        dy == y - centerY
    IN Pt(centerX + dx * CosQ(rotation) - dy * SinQ(rotation),
          centerY + dx * SinQ(rotation) + dy * CosQ(rotation))

unrotatePoint(x, y, centerX, centerY, rotation) ==
    LET dx == x - centerX
        dy == y - centerY
    IN Pt(centerX + dx * CosQ(-rotation) - dy * SinQ(-rotation),
          centerY + dx * SinQ(-rotation) + dy * CosQ(-rotation))

\* The operators below work on doubled coordinates (2x, 2y), in which the
\* centers (a + b) / 2 of the source are whole numbers.
Dbl(p) == Pt(2 * p.x, 2 * p.y)

isOnRotateAnchor(point, element) ==
    LET start == element.points[1]
        end == element.points[2]
        minY == Min2(start.y, end.y)
        centerX2 == start.x + end.x
        centerY2 == start.y + end.y
        topCenter == rotatePoint(centerX2, 2 * (minY - RotateHandleOffset),
                                 centerX2, centerY2, element.rotation)
        dx == 2 * point.x - topCenter.x
        dy == 2 * point.y - topCenter.y
    IN dx * dx + dy * dy <= 4 * RotateHandleRadius * RotateHandleRadius

\* the eight anchors of the min/max box, doubled, before rotation
BoxAnchors2(element) ==
    LET start == element.points[1]
        end == element.points[2]
        minX == Min2(start.x, end.x)
        maxX == Max2(start.x, end.x)
        minY == Min2(start.y, end.y)
        maxY == Max2(start.y, end.y)
    IN << Pt(2 * minX, 2 * minY), Pt(minX + maxX, 2 * minY), Pt(2 * maxX, 2 * minY),
          Pt(2 * maxX, minY + maxY), Pt(2 * maxX, 2 * maxY), Pt(minX + maxX, 2 * maxY),
          Pt(2 * minX, 2 * maxY), Pt(2 * minX, minY + maxY) >>

RotatedAnchors2(element) ==
    LET a == BoxAnchors2(element)
        cx2 == a[2].x
        cy2 == a[4].y
    IN [i \in 1..8 |-> rotatePoint(a[i].x, a[i].y, cx2, cy2, element.rotation)]

\* index 0..7 (0..1 for a line) of the first anchor under the point, or NoAnchor
hitAnchorPoint(point, element) ==
    IF element.type = "line"
    THEN LET hit(i) == /\ Abs(point.x - element.points[i + 1].x) <= AnchorRadius
                       /\ Abs(point.y - element.points[i + 1].y) <= AnchorRadius
         IN IF hit(0) THEN 0 ELSE IF hit(1) THEN 1 ELSE NoAnchor
    ELSE LET anchors == RotatedAnchors2(element)
             dx(i) == 2 * point.x - anchors[i + 1].x
             dy(i) == 2 * point.y - anchors[i + 1].y
             hit(i) == IF i % 2 = 0
                       THEN Abs(dx(i)) <= 2 * AnchorRadius /\ Abs(dy(i)) <= 2 * AnchorRadius
                       ELSE dx(i) * dx(i) + dy(i) * dy(i) <= 4 * AnchorRadius * AnchorRadius
             hits == {i \in 0..7 : hit(i)}
         IN IF hits = {} THEN NoAnchor ELSE CHOOSE i \in hits : \A j \in hits : i <= j

\* distance from t to the segment a-b is below the threshold (doubled coordinates)
NearSegment2(t, a, b) ==
    LET A == t.x - a.x
        B == t.y - a.y
        C == b.x - a.x
        D == b.y - a.y
        dot == A * C + B * D
        len_sq == C * C + D * D
        lim == 4 * LineHitThreshold * LineHitThreshold
    IN IF len_sq = 0 \/ dot < 0 THEN A * A + B * B < lim
       ELSE IF dot > len_sq THEN (t.x - b.x) * (t.x - b.x) + (t.y - b.y) * (t.y - b.y) < lim
       ELSE (A * D - B * C) * (A * D - B * C) < lim * len_sq

\* variant: the outline of the ellipse does not belong to it
InEllipseOpen(DX, DY, width, height) ==
    /\ width # 0 /\ height # 0
    /\ DX * DX * height * height + DY * DY * width * width < width * width * height * height

\* (x - centerX) ** 2 / rx ** 2 + (y - centerY) ** 2 / ry ** 2 <= 1, false for a
\* radius 0; DX, DY are the doubled offsets, width and height the doubled radii
InEllipse(DX, DY, width, height) ==
    /\ width # 0 /\ height # 0
    /\ DX * DX * height * height + DY * DY * width * width <= width * width * height * height

hitTestPointInElement(point, element) ==
    LET rotation == element.rotation
        start == element.points[1]
        end == element.points[2]
        minX2 == 2 * Min2(start.x, end.x)
        maxX2 == 2 * Max2(start.x, end.x)
        minY2 == 2 * Min2(start.y, end.y)
        maxY2 == 2 * Max2(start.y, end.y)
        centerX2 == start.x + end.x
        centerY2 == start.y + end.y
        testPoint == IF rotation # 0
                     THEN unrotatePoint(2 * point.x, 2 * point.y, centerX2, centerY2, rotation)
                     ELSE Dbl(point)
        width == Abs(end.x - start.x)
        height == Abs(end.y - start.y)
        DX == testPoint.x - centerX2
        DY == testPoint.y - centerY2
        inBox == /\ testPoint.x >= minX2 /\ testPoint.x <= maxX2
                 /\ testPoint.y >= minY2 /\ testPoint.y <= maxY2
        rot(p) == IF rotation # 0
                  THEN rotatePoint(2 * p.x, 2 * p.y, centerX2, centerY2, rotation)
                  ELSE Dbl(p)
        lineStart == rot(start)
        lineEnd == rot(end)
        cross == (lineEnd.y - lineStart.y) * (2 * point.x)
                   - (lineEnd.x - lineStart.x) * (2 * point.y)
                   + lineEnd.x * lineStart.y - lineEnd.y * lineStart.x
        len2 == (lineEnd.y - lineStart.y) * (lineEnd.y - lineStart.y)
                  + (lineEnd.x - lineStart.x) * (lineEnd.x - lineStart.x)
        pts == element.points
    IN CASE element.type \in {"text", "rectangle"} -> inBox
         [] element.type = "ellipse" -> InEllipse(DX, DY, width, height)
         [] element.type = "diamond" ->
              /\ width # 0 /\ height # 0
              /\ Abs(DX) * height + Abs(DY) * width <= width * height
         [] element.type = "line" ->
              \* |cross| / sqrt(len2) < 8; 0 / 0 is NaN, and NaN < 8 is false
              /\ len2 # 0
              /\ cross * cross < 16 * LineHitThreshold * LineHitThreshold * len2
         [] element.type = "freehand" ->
              \E i \in 1..(Len(pts) - 1) : NearSegment2(Dbl(point), rot(pts[i]), rot(pts[i + 1]))
         [] OTHER -> FALSE

\* ------------------------------------------------------------------ state
NoTextInput == [visible |-> FALSE, x |-> 0, y |-> 0, width |-> 0, height |-> 0,
                content |-> "", rotation |-> 0]

\* gesture.phase: "active" from a pointer-down while only pointer-moves follow,
\* "done" after its pointer-up, "undone" after an undo that ran right after it;
\* pre, hist and redo are the collection and the stack lengths before the down,
\* at the pointer position of the down.
NoGesture == [phase |-> "none", pre |-> <<>>, hist |-> 0, redo |-> 0, kind |-> "none",
              at |-> Null]

\* the state after setup of the store and the canvas component
Setup ==
    /\ elements = <<>>
    /\ currentTool = "select"
    /\ captured = [stale |-> FALSE, elems |-> <<>>]
    /\ selectedIds = {}
    /\ resizing = FALSE
    /\ resizeAnchor = NoAnchor
    /\ isDrawing = FALSE
    /\ startPoint = Null
    /\ dragOffset = Null
    /\ selectionBox = Null
    /\ history = <<>>
    /\ redoStack = <<>>
    /\ rotating = FALSE
    /\ rotateStartAngle = 0
    /\ rotateStartRotation = 0
    /\ textInput = NoTextInput
    /\ nextId = 0
    /\ gesture = NoGesture
    /\ editing = Null

Init == Setup /\ events = MaxEvents

\* the heap a handler leaves behind becomes the next state
Commit(S) ==
    LET N == Renumber(S)
    IN /\ elements' = N.e
       /\ history' = N.h
       /\ redoStack' = N.r

Here == Heap(elements, history, redoStack)

\* every variable but the event counter
state == <<elements, currentTool, captured, selectedIds, resizing, resizeAnchor,
           isDrawing, startPoint, dragOffset, selectionBox, history, redoStack,
           rotating, rotateStartAngle, rotateStartRotation, textInput, nextId, gesture,
           editing>>

\* Events that change the state are counted down from the number a session
\* starts with: Budget is the first conjunct of every action and Count the last.
\* some coordinate of the collection is not a number
HasNaN(es) == \E i \in 1..Len(es) : \E j \in 1..Len(es[i].points) :
                 es[i].points[j].x = NaN \/ es[i].points[j].y = NaN

\* a session is followed while events remain and every coordinate is a number
Budget == events > 0 /\ ~HasNaN(elements)
Count == events' = IF state' = state THEN events ELSE events - 1

\* --------------------------------------------------------------- keyboard
\* variant: handleKeyDown without the test of the text overlay
SuppressedNever == FALSE

\* handleKeyDown returns at once while the text overlay is open
Suppressed == textInput.visible

\* handleKeyDown with Delete or Backspace
KeyDelete ==
    /\ Budget
    /\ gesture' = NoGesture
    /\ IF Suppressed
       THEN UNCHANGED <<elements, history, redoStack, selectedIds>>
       ELSE IF selectedIds # {}
            THEN /\ Commit(DeleteAll(pushHistory(Here), selectedIds))
                 /\ selectedIds' = {}
            ELSE UNCHANGED <<elements, history, redoStack, selectedIds>>
    /\ UNCHANGED <<currentTool, captured, resizing, resizeAnchor, isDrawing, startPoint,
                   dragOffset, selectionBox, rotating, rotateStartAngle,
                   rotateStartRotation, textInput, editing, nextId>>
    /\ Count

\* handleKeyDown with Ctrl/Cmd+Z
KeyUndo ==
    /\ Budget
    /\ gesture' = IF gesture.phase = "done" /\ ~Suppressed
                  THEN [gesture EXCEPT !.phase = "undone"]
                  ELSE NoGesture
    /\ IF Suppressed
       THEN UNCHANGED <<elements, history, redoStack>>
       ELSE Commit(undo(Here))
    /\ UNCHANGED <<currentTool, captured, selectedIds, resizing, resizeAnchor, isDrawing,
                   startPoint, dragOffset, selectionBox, rotating, rotateStartAngle,
                   rotateStartRotation, textInput, editing, nextId>>
    /\ Count

\* handleKeyDown with Ctrl/Cmd+Y
KeyRedo ==
    /\ Budget
    /\ gesture' = NoGesture
    /\ IF Suppressed
       THEN UNCHANGED <<elements, history, redoStack>>
       ELSE Commit(redo(Here))
    /\ UNCHANGED <<currentTool, captured, selectedIds, resizing, resizeAnchor, isDrawing,
                   startPoint, dragOffset, selectionBox, rotating, rotateStartAngle,
                   rotateStartRotation, textInput, editing, nextId>>
    /\ Count

\* ------------------------------------------------------------ pointer down
GestureIdle == Idle /\ ~rotating

\* the gesture a pointer-down starts, when no gesture is in progress
StartGesture(kind, point) ==
    IF GestureIdle
    THEN [phase |-> "active", pre |-> Strip(elements), hist |-> Len(history),
          redo |-> Len(redoStack), kind |-> kind, at |-> Some(point)]
    ELSE NoGesture

NewElement(id, type, point) ==
    [ref |-> Fresh(6, 1), pref |-> Fresh(6, 1), id |-> id, type |-> type,
     points |-> <<point, point>>, rotation |-> 0, text |-> ""]

\* variant: the new element is put in front of the collection
addElementFront(S, element) == Heap(<<element>> \o S.e, S.h, S.r)

\* store.addElement: this.elements.push(element)
addElement(S, element) == Heap(Append(S.e, element), S.h, S.r)

\* variant: the scan runs in insertion order and stops at the first hit
BottomHit(point) ==
    LET hits == {i \in 1..Len(elements) : hitTestPointInElement(point, elements[i])}
    IN IF hits = {} THEN 0 ELSE CHOOSE i \in hits : \A j \in hits : i <= j

\* the topmost element under the point: the highest index that is hit, or 0
TopHit(point) ==
    LET hits == {i \in 1..Len(elements) : hitTestPointInElement(point, elements[i])}
    IN IF hits = {} THEN 0 ELSE CHOOSE i \in hits : \A j \in hits : j <= i

\* handleMouseDown, text tool or a drawing tool: a new element is created
MouseDownDraw(point) ==
    /\ Budget
    /\ GestureIdle
    /\ currentTool # "select"
    /\ nextId < MaxIds
    /\ Commit(addElement(safePushHistory(Here), NewElement(nextId + 1, currentTool, point)))
    /\ nextId' = nextId + 1
    /\ isDrawing' = TRUE
    /\ startPoint' = Some(point)
    /\ selectedIds' = IF currentTool = "freehand" THEN {} ELSE {nextId + 1}
    /\ gesture' = StartGesture("draw", point)
    /\ UNCHANGED <<currentTool, captured, resizing, resizeAnchor, dragOffset, selectionBox,
                   rotating, rotateStartAngle, rotateStartRotation, textInput, editing>>
    /\ Count

\* the single selected element, when the selection holds one id that is live
SingleSelected == IF Cardinality(selectedIds) = 1 THEN selectedElements ELSE <<>>

\* variant: the elements are hit-tested before the rotation handle
OnRotateUnlessHit(point) ==
    /\ SingleSelected # <<>>
    /\ isOnRotateAnchor(point, SingleSelected[1])
    /\ TopHit(point) = 0

OnRotate(point) == SingleSelected # <<>> /\ isOnRotateAnchor(point, SingleSelected[1])
OnAnchor(point) ==
    /\ SingleSelected # <<>>
    /\ ~isOnRotateAnchor(point, SingleSelected[1])
    /\ hitAnchorPoint(point, SingleSelected[1]) # NoAnchor

\* handleMouseDown, select tool, rotation handle of the single selected element
MouseDownRotate(point) ==
    /\ Budget
    /\ GestureIdle
    /\ currentTool = "select"
    /\ OnRotate(point)
    /\ LET selected == SingleSelected[1]
           dy == 2 * point.y - (selected.points[1].y + selected.points[2].y)
           dx == 2 * point.x - (selected.points[1].x + selected.points[2].x)
       IN /\ OnAxis(dy, dx)
          /\ rotateStartAngle' = Atan2Q(dy, dx)
          /\ rotateStartRotation' = selected.rotation
    /\ Commit(safePushHistory(Here))
    /\ rotating' = TRUE
    /\ startPoint' = Some(point)
    /\ gesture' = StartGesture("rotate", point)
    /\ UNCHANGED <<currentTool, captured, selectedIds, resizing, resizeAnchor, isDrawing,
                   dragOffset, selectionBox, textInput, editing, nextId>>
    /\ Count

\* handleMouseDown, select tool, resize anchor of the single selected element
MouseDownResize(point) ==
    /\ Budget
    /\ GestureIdle
    /\ currentTool = "select"
    /\ OnAnchor(point)
    /\ Commit(safePushHistory(Here))
    /\ resizing' = TRUE
    /\ resizeAnchor' = hitAnchorPoint(point, SingleSelected[1])
    /\ startPoint' = Some(point)
    /\ gesture' = StartGesture("resize", point)
    /\ UNCHANGED <<currentTool, captured, selectedIds, isDrawing, dragOffset, selectionBox,
                   rotating, rotateStartAngle, rotateStartRotation, textInput, editing, nextId>>
    /\ Count

\* handleMouseDown, select tool, an element under the pointer
MouseDownHit(point) ==
    /\ Budget
    /\ GestureIdle
    /\ currentTool = "select"
    /\ ~OnRotate(point) /\ ~OnAnchor(point)
    /\ TopHit(point) # 0
    /\ LET el == elements[TopHit(point)]
           keep == Cardinality(selectedIds) > 1 /\ el.id \in selectedIds
           base == IF keep THEN selectedElements[1] ELSE el
       IN /\ selectedIds' = IF keep THEN selectedIds ELSE {el.id}
          /\ dragOffset' = Some(Pt(point.x - base.points[1].x, point.y - base.points[1].y))
    /\ Commit(safePushHistory(Here))
    /\ startPoint' = Some(point)
    /\ gesture' = StartGesture("drag", point)
    /\ UNCHANGED <<currentTool, captured, resizing, resizeAnchor, isDrawing, selectionBox,
                   rotating, rotateStartAngle, rotateStartRotation, textInput, editing, nextId>>
    /\ Count

\* variant: the box starts and the selection is left as it was
StartBoxKeepSelection(point) ==
    [selectionBox |-> Some([start |-> point, end |-> point]), dragOffset |-> Null,
     selectedIds |-> selectedIds]

\* what the blank-space branch assigns besides startPoint
StartBox(point) ==
    [selectionBox |-> Some([start |-> point, end |-> point]), dragOffset |-> Null,
     selectedIds |-> {}]

\* handleMouseDown, select tool, nothing under the pointer
MouseDownBox(point) ==
    /\ Budget
    /\ GestureIdle
    /\ currentTool = "select"
    /\ ~OnRotate(point) /\ ~OnAnchor(point)
    /\ TopHit(point) = 0
    /\ Commit(safePushHistory(Here))
    /\ selectionBox' = StartBox(point).selectionBox
    /\ startPoint' = Some(point)
    /\ dragOffset' = StartBox(point).dragOffset
    /\ selectedIds' = StartBox(point).selectedIds
    /\ gesture' = StartGesture("box", point)
    /\ UNCHANGED <<currentTool, captured, resizing, resizeAnchor, isDrawing, rotating,
                   rotateStartAngle, rotateStartRotation, textInput, editing, nextId>>
    /\ Count

\* A pointer-down arrives when no button is held: after construction or after
\* the pointer-up (or mouseleave) that ended the previous gesture.
handleMouseDown(point) ==
    \/ MouseDownDraw(point)
    \/ MouseDownRotate(point)
    \/ MouseDownResize(point)
    \/ MouseDownHit(point)
    \/ MouseDownBox(point)

\* ------------------------------------------------------------ pointer move
InRange(p) == /\ p.x >= CoordMin /\ p.x <= CoordMax /\ p.y >= CoordMin /\ p.y <= CoordMax
AllInRange(pts) == \A i \in 1..Len(pts) : InRange(pts[i])

\* useSelection.resizeElement for an element of the live collection
resizeElement(S, element, anchorIdx, to) ==
    IF element.type \in {"rectangle", "ellipse", "diamond", "text"}
    THEN LET start == element.points[1]
             end == element.points[2]
             newStart == CASE anchorIdx = 0 -> to
                           [] anchorIdx \in {1, 2} -> Pt(start.x, to.y)
                           [] anchorIdx \in {6, 7} -> Pt(to.x, start.y)
                           [] OTHER -> start
             newEnd == CASE anchorIdx = 4 -> to
                         [] anchorIdx \in {2, 3} -> Pt(to.x, end.y)
                         [] anchorIdx \in {5, 6} -> Pt(end.x, to.y)
                         [] OTHER -> end
             pts == << Pt(Min2(newStart.x, newEnd.x), Min2(newStart.y, newEnd.y)),
                       Pt(Max2(newStart.x, newEnd.x), Max2(newStart.y, newEnd.y)) >>
         IN WriteObj(S, element.ref,
                     LAMBDA el : [el EXCEPT !.points = pts, !.pref = Fresh(7, 1)])
    ELSE IF element.type = "line"
    THEN WriteArr(S, element.pref, anchorIdx + 1, to)
    ELSE S

\* whole square root, or -1 when n is no perfect square
ISqrt(n) ==
    LET R == 0..(4 * CoordMax)
    IN IF \E r \in R : r * r = n THEN CHOOSE r \in R : r * r = n ELSE -1

\* The width and height a resize move gives a rotated box, times ScaleRate * den:
\* [ok, w, h, den]; ok is false where the result is no whole number of pixels.
RotatedScale(element, anchorIdx, to) ==
    LET a == BoxAnchors2(element)
        originalWidth == (a[3].x - a[1].x) \div 2
        originalHeight == (a[5].y - a[1].y) \div 2
        rotatedAnchors == RotatedAnchors2(element)
        oppositeAnchor == rotatedAnchors[((anchorIdx + 4) % 8) + 1]
        currentAnchor == rotatedAnchors[anchorIdx + 1]
        mouseDeltaX == to.x - Val(startPoint).x
        mouseDeltaY == to.y - Val(startPoint).y
        \* doubled, as the anchors are
        anchorToOppositeX == oppositeAnchor.x - currentAnchor.x
        anchorToOppositeY == oppositeAnchor.y - currentAnchor.y
        num == mouseDeltaX * anchorToOppositeX + mouseDeltaY * anchorToOppositeY
        len == ISqrt(anchorToOppositeX * anchorToOppositeX + anchorToOppositeY * anchorToOppositeY)
    IN IF anchorIdx \in {0, 2, 4, 6}
       THEN \* scaleChange = direction * |projection| / 100 = - num / (len * 100)
            IF num = 0
            THEN [ok |-> anchorToOppositeX # 0 \/ anchorToOppositeY # 0,
                  w |-> originalWidth * ScaleRate, h |-> originalHeight * ScaleRate, den |-> 1]
            ELSE [ok |-> len > 0,
                  w |-> originalWidth * (ScaleRate * len - num),
                  h |-> originalHeight * (ScaleRate * len - num), den |-> len]
       ELSE IF anchorIdx \in {1, 5}
       THEN [ok |-> TRUE, w |-> originalWidth * ScaleRate,
             h |-> originalHeight * (ScaleRate - Sign(anchorToOppositeY) * mouseDeltaY),
             den |-> 1]
       ELSE [ok |-> TRUE,
             w |-> originalWidth * (ScaleRate - Sign(anchorToOppositeX) * mouseDeltaX),
             h |-> originalHeight * ScaleRate, den |-> 1]

\* the points resizeElementWithRotation stores for a box of the given center
\* (doubled) and size
BoxAround(ok, centerX2, centerY2, newWidth, newHeight) ==
    [ok |-> /\ ok
            /\ (centerX2 - newWidth) % 2 = 0
            /\ (centerY2 - newHeight) % 2 = 0,
     points |-> << Pt((centerX2 - newWidth) \div 2, (centerY2 - newHeight) \div 2),
                   Pt((centerX2 + newWidth) \div 2, (centerY2 + newHeight) \div 2) >>]

\* Math.max(10, originalWidth * scaleX) and the same for the height
ScaledBox(sc, unit, a) ==
    BoxAround(/\ sc.ok
              /\ (sc.w > MinSize * unit => sc.w % unit = 0)
              /\ (sc.h > MinSize * unit => sc.h % unit = 0),
              a[2].x, a[4].y,
              IF sc.w <= MinSize * unit THEN MinSize ELSE sc.w \div unit,
              IF sc.h <= MinSize * unit THEN MinSize ELSE sc.h \div unit)

\* the points resizeElementWithRotation stores for a rotated box; a corner anchor
\* of a box without extent divides 0 by the length 0, and neither Math.max nor
\* the sums with the center turn the result into a number again
RotatedBox(element, anchorIdx, to) ==
    IF anchorIdx \in {0, 2, 4, 6} /\ element.points[1] = element.points[2]
    THEN [ok |-> TRUE, points |-> << Pt(NaN, NaN), Pt(NaN, NaN) >>]
    ELSE
    ScaledBox(RotatedScale(element, anchorIdx, to),
              ScaleRate * RotatedScale(element, anchorIdx, to).den,
              BoxAnchors2(element))

\* the endpoint resizeElementWithRotation stores for a line
LineEndpoint(element, to) ==
    LET centerX2 == element.points[1].x + element.points[2].x
        centerY2 == element.points[1].y + element.points[2].y
        u == unrotatePoint(2 * to.x, 2 * to.y, centerX2, centerY2, element.rotation)
    IN IF element.rotation # 0
       THEN [ok |-> u.x % 2 = 0 /\ u.y % 2 = 0, p |-> Pt(u.x \div 2, u.y \div 2)]
       ELSE [ok |-> TRUE, p |-> to]

\* element.points[0] = ... or element.points[1] = ..., in place
SetLineEndpoint(S, element, anchorIdx, le) ==
    [ok |-> le.ok,
     S |-> WriteArr(S, element.pref, IF anchorIdx = 0 THEN 1 ELSE 2, le.p),
     startPoint |-> startPoint, dragOffset |-> dragOffset]

\* element.points = [...], then startPoint.value = { x, y }
SetRotatedBox(S, element, rb, to) ==
    [ok |-> rb.ok,
     S |-> WriteObj(S, element.ref,
                    LAMBDA el : [el EXCEPT !.points = rb.points, !.pref = Fresh(7, 1)]),
     startPoint |-> Some(to),
     dragOffset |-> IF IsSet(dragOffset) THEN dragOffset ELSE Some(Pt(0, 0))]

\* resizeElementWithRotation: [ok, S, startPoint, dragOffset]
resizeElementWithRotation(S, element, anchorIdx, to) ==
    IF element.type = "line"
    THEN SetLineEndpoint(S, element, anchorIdx, LineEndpoint(element, to))
    ELSE IF element.rotation = 0
    THEN [ok |-> TRUE, S |-> resizeElement(S, element, anchorIdx, to),
          startPoint |-> startPoint, dragOffset |-> dragOffset]
    ELSE SetRotatedBox(S, element, RotatedBox(element, anchorIdx, to), to)

LiveInRange(S) == \A i \in 1..Len(S.e) : AllInRange(S.e[i].points)

\* what every branch of handleMouseMove leaves alone
MoveRest ==
    /\ gesture' = IF gesture.phase = "active" THEN gesture ELSE NoGesture
    /\ UNCHANGED <<currentTool, captured, selectedIds, resizing, resizeAnchor, isDrawing,
                   rotating, rotateStartAngle, rotateStartRotation, textInput, editing, nextId>>
    /\ Count

\* variant: the change of angle is added to the rotation the element has now
RotatedFromCurrent(selected, angle) == selected.rotation + (angle - rotateStartAngle)

\* rotateStartRotation.value + (angle - rotateStartAngle.value)
Rotated(selected, angle) == rotateStartRotation + (angle - rotateStartAngle)

\* variant: the element is carried to the pointer-down position while it turns
TurnedAndCarried(element, rotation) ==
    [element EXCEPT !.rotation = rotation,
                    !.points = [i \in DOMAIN element.points |-> Val(startPoint)]]

\* selected.rotation = ...: the only write of the rotate branch
Turned(element, rotation) == [element EXCEPT !.rotation = rotation]

\* handleMouseMove while rotating with one selected id
MoveRotate(point) ==
    /\ Budget
    /\ rotating /\ Cardinality(selectedIds) = 1
    /\ IF selectedElements # <<>>
       THEN LET selected == selectedElements[1]
                dy == 2 * point.y - (selected.points[1].y + selected.points[2].y)
                dx == 2 * point.x - (selected.points[1].x + selected.points[2].x)
                rotation == Rotated(selected, Atan2Q(dy, dx))
            IN /\ OnAxis(dy, dx)
               /\ Abs(rotation) <= MaxRot
               /\ Commit(WriteObj(Here, selected.ref, LAMBDA el : Turned(el, rotation)))
       ELSE UNCHANGED <<elements, history, redoStack>>
    /\ UNCHANGED <<startPoint, dragOffset, selectionBox>>
    /\ MoveRest

\* variant: the box is started again at the pointer
BoxRestarted(box, point) == [start |-> point, end |-> point]

\* selectionBox.value.end = point
BoxEnd(box, point) == [box EXCEPT !.end = point]

\* handleMouseMove while the selection box is open
MoveBox(point) ==
    /\ Budget
    /\ ~(rotating /\ Cardinality(selectedIds) = 1)
    /\ IsSet(selectionBox) /\ IsSet(startPoint)
    /\ selectionBox' = Some(BoxEnd(Val(selectionBox), point))
    /\ UNCHANGED <<elements, history, redoStack, startPoint, dragOffset>>
    /\ MoveRest

MoveOther == ~(rotating /\ Cardinality(selectedIds) = 1) /\ ~(IsSet(selectionBox) /\ IsSet(startPoint))

ResizeBranch == resizing /\ Cardinality(selectedIds) = 1 /\ IsSet(startPoint)

\* the resize, then selected.points = [...selected.points]
ApplyResize(selected, r) ==
    /\ r.ok
    /\ (LiveInRange(r.S) \/ HasNaN(r.S.e))
    /\ Commit(WriteObj(r.S, selected.ref, LAMBDA el : [el EXCEPT !.pref = Fresh(8, 1)]))
    /\ startPoint' = r.startPoint
    /\ dragOffset' = r.dragOffset

\* handleMouseMove with the select tool, resizing
MoveResize(point) ==
    /\ Budget
    /\ MoveOther /\ currentTool = "select" /\ ResizeBranch
    /\ IF selectedElements # <<>> /\ resizeAnchor # NoAnchor
       THEN ApplyResize(selectedElements[1],
                        resizeElementWithRotation(Here, selectedElements[1], resizeAnchor, point))
       ELSE UNCHANGED <<elements, history, redoStack, startPoint, dragOffset>>
    /\ UNCHANGED selectionBox
    /\ MoveRest

\* variant: only the first selected element follows the pointer
DragFirst(S, els, dx, dy) ==
    IF els = <<>> THEN S
    ELSE LET el == Head(els)
             newPoints == [i \in 1..Len(el.points) |-> Pt(el.points[i].x + dx, el.points[i].y + dy)]
         IN WriteObj(S, el.ref, LAMBDA e : [e EXCEPT !.points = newPoints,
                                                     !.pref = Fresh(9, Len(els))])

\* selectedElements.forEach: every point of every selected element moves by (dx, dy)
RECURSIVE DragAll(_, _, _, _)
DragAll(S, els, dx, dy) ==
    IF els = <<>> THEN S
    ELSE LET el == Head(els)
             newPoints == [i \in 1..Len(el.points) |-> Pt(el.points[i].x + dx, el.points[i].y + dy)]
         IN DragAll(WriteObj(S, el.ref, LAMBDA e : [e EXCEPT !.points = newPoints,
                                                              !.pref = Fresh(9, Len(els))]),
                    Tail(els), dx, dy)

\* handleMouseMove with the select tool, dragging the selection
MoveDrag(point) ==
    /\ Budget
    /\ MoveOther /\ currentTool = "select" /\ ~ResizeBranch
    /\ IF selectedIds # {} /\ IsSet(startPoint) /\ IsSet(dragOffset)
       THEN LET S2 == DragAll(Here, selectedElements, point.x - Val(startPoint).x,
                              point.y - Val(startPoint).y)
            IN /\ LiveInRange(S2)
               /\ Commit(S2)
               /\ startPoint' = Some(point)
       ELSE UNCHANGED <<elements, history, redoStack, startPoint>>
    /\ UNCHANGED <<dragOffset, selectionBox>>
    /\ MoveRest

\* variant: a freehand element is given two points like a shape
DrawnPointsTwo(currentElement, point) == <<Val(startPoint), point>>

\* variant: every element being drawn collects the pointer positions
DrawnPointsAppended(currentElement, point) == Append(currentElement.points, point)

\* the points the drawing branch gives the element being drawn
DrawnPoints(currentElement, point) ==
    IF currentElement.type = "freehand"
    THEN Append(currentElement.points, point)
    ELSE <<Val(startPoint), point>>

\* handleMouseMove with another tool: the last element follows the pointer
MoveDraw(point) ==
    /\ Budget
    /\ MoveOther /\ currentTool # "select"
    /\ IF isDrawing /\ IsSet(startPoint) /\ elements # <<>>
       THEN LET currentElement == Last(elements)
                pts == DrawnPoints(currentElement, point)
            IN /\ Len(pts) <= MaxPoints
               /\ Commit(WriteObj(Here, currentElement.ref,
                                  LAMBDA el : [el EXCEPT !.points = pts, !.pref = Fresh(10, 1)]))
       ELSE UNCHANGED <<elements, history, redoStack>>
    /\ UNCHANGED <<startPoint, dragOffset, selectionBox>>
    /\ MoveRest

handleMouseMove(point) ==
    \/ MoveRotate(point)
    \/ MoveBox(point)
    \/ MoveResize(point)
    \/ MoveDrag(point)
    \/ MoveDraw(point)

\* -------------------------------------------------------------- pointer up
\* the array the selection composable iterates over
BoxElements == IF captured.stale THEN captured.elems ELSE elements

SetMin(vs) == CHOOSE v \in vs : \A w \in vs : v <= w
SetMax(vs) == CHOOSE v \in vs : \A w \in vs : v >= w
Xs(pts) == {pts[i].x : i \in 1..Len(pts)}
Ys(pts) == {pts[i].y : i \in 1..Len(pts)}

selectElementsInBox(boxStart, boxEnd) ==
    LET minX == Min2(boxStart.x, boxEnd.x)
        maxX == Max2(boxStart.x, boxEnd.x)
        minY == Min2(boxStart.y, boxEnd.y)
        maxY == Max2(boxStart.y, boxEnd.y)
        inBox(el) == /\ SetMax(Xs(el.points)) >= minX /\ SetMin(Xs(el.points)) <= maxX
                     /\ SetMax(Ys(el.points)) >= minY /\ SetMin(Ys(el.points)) <= maxY
    IN {BoxElements[i].id : i \in {j \in 1..Len(BoxElements) : inBox(BoxElements[j])}}

\* variant: the overlay is put at the first stored point
OverlayAtStart(element, content) ==
    LET start == element.points[1]
        end == element.points[2]
    IN [visible |-> TRUE, x |-> start.x, y |-> start.y,
        width |-> Abs(end.x - start.x), height |-> Abs(end.y - start.y),
        content |-> content, rotation |-> element.rotation]

\* the overlay handleMouseUp and handleDoubleClick open on a text element
OverlayAt(element, content) ==
    LET start == element.points[1]
        end == element.points[2]
    IN [visible |-> TRUE, x |-> Min2(start.x, end.x), y |-> Min2(start.y, end.y),
        width |-> Abs(end.x - start.x), height |-> Abs(end.y - start.y),
        content |-> content, rotation |-> element.rotation]

\* variant: the test that ends handleMouseUp reads the values before the reset
UpCommitsLive(box, drawing, resize, drag) ==
    ~IsSet(selectionBox) /\ (isDrawing \/ resizing \/ IsSet(dragOffset))

\* the test that ends handleMouseUp, on the values the handler has set by then
UpCommits(box, drawing, resize, drag) == ~box /\ (drawing \/ resize \/ drag)

\* variant: a pointer-up that leaves the drag offset and the start point set
ReleasedKeepDrag ==
    [isDrawing |-> FALSE, resizing |-> FALSE, rotateStartAngle |-> 0,
     rotateStartRotation |-> 0, rotating |-> FALSE, resizeAnchor |-> NoAnchor,
     dragOffset |-> dragOffset, selectionBox |-> Null, startPoint |-> startPoint]

\* the values handleMouseUp resets the interaction to
Released ==
    [isDrawing |-> FALSE, resizing |-> FALSE, rotateStartAngle |-> 0,
     rotateStartRotation |-> 0, rotating |-> FALSE, resizeAnchor |-> NoAnchor,
     dragOffset |-> Null, selectionBox |-> Null, startPoint |-> Null]

\* variant: every pointer-up switches to the select tool
ToolAfterUpSelect(tool) == "select"

\* the tool handleMouseUp leaves: select replaces every tool but freehand
ToolAfterUp(tool) == IF tool \notin {"select", "freehand"} THEN "select" ELSE tool

\* handleMouseUp (mouseup and mouseleave)
handleMouseUp ==
    /\ Budget
    /\ textInput' = IF isDrawing /\ currentTool = "text" /\ elements # <<>>
                       /\ Last(elements).type = "text"
                    THEN OverlayAt(Last(elements), "")
                    ELSE textInput
    /\ editing' = IF isDrawing /\ currentTool = "text" /\ elements # <<>>
                     /\ Last(elements).type = "text"
                  THEN Some(Last(elements).id)
                  ELSE editing
    /\ selectedIds' = IF IsSet(selectionBox)
                      THEN selectElementsInBox(Val(selectionBox).start, Val(selectionBox).end)
                      ELSE IF isDrawing /\ elements # <<>> /\ currentTool # "freehand"
                      THEN {Last(elements).id}
                      ELSE selectedIds
    /\ isDrawing' = Released.isDrawing
    /\ resizing' = Released.resizing
    /\ rotateStartAngle' = Released.rotateStartAngle
    /\ rotateStartRotation' = Released.rotateStartRotation
    /\ rotating' = Released.rotating
    /\ resizeAnchor' = Released.resizeAnchor
    /\ dragOffset' = Released.dragOffset
    /\ selectionBox' = Released.selectionBox
    /\ startPoint' = Released.startPoint
    /\ currentTool' = ToolAfterUp(currentTool)
    /\ IF UpCommits(FALSE, FALSE, FALSE, FALSE)
       THEN Commit(pushHistory(Here))
       ELSE UNCHANGED <<elements, history, redoStack>>
    /\ gesture' = IF gesture.phase = "active" THEN [gesture EXCEPT !.phase = "done"] ELSE NoGesture
    /\ UNCHANGED <<captured, nextId>>
    /\ Count

\* ------------------------------------------------------------ text overlay
\* the user types into the textarea (v-model="textInput.content")
TypeText(content) ==
    /\ Budget
    /\ textInput.visible
    /\ textInput' = [textInput EXCEPT !.content = content]
    /\ editing' = editing
    /\ gesture' = NoGesture
    /\ UNCHANGED <<elements, currentTool, captured, selectedIds, resizing, resizeAnchor,
                   isDrawing, startPoint, dragOffset, selectionBox, history, redoStack,
                   rotating, rotateStartAngle, rotateStartRotation, nextId>>
    /\ Count

\* completeTextInput (blur or Enter)
completeTextInput ==
    /\ Budget
    /\ IF textInput.visible
       THEN /\ IF elements # <<>> /\ Last(elements).type = "text"
               THEN /\ Commit(WriteObj(Here, Last(elements).ref,
                                       LAMBDA el : [el EXCEPT !.text = textInput.content]))
                    /\ selectedIds' = {Last(elements).id}
               ELSE UNCHANGED <<elements, history, redoStack, selectedIds>>
            /\ textInput' = [textInput EXCEPT !.visible = FALSE, !.content = ""]
            /\ editing' = Null
       ELSE UNCHANGED <<elements, history, redoStack, selectedIds, textInput, editing>>
    /\ gesture' = NoGesture
    /\ UNCHANGED <<currentTool, captured, resizing, resizeAnchor, isDrawing, startPoint,
                   dragOffset, selectionBox, rotating, rotateStartAngle,
                   rotateStartRotation, nextId>>
    /\ Count

\* the topmost text element under the point, or 0
TopTextHit(point) ==
    LET hits == {i \in 1..Len(elements) :
                    elements[i].type = "text" /\ hitTestPointInElement(point, elements[i])}
    IN IF hits = {} THEN 0 ELSE CHOOSE i \in hits : \A j \in hits : j <= i

handleDoubleClick(point) ==
    /\ Budget
    /\ IF TopTextHit(point) # 0
       THEN LET element == elements[TopTextHit(point)]
            IN /\ textInput' = OverlayAt(element, element.text)
               /\ editing' = Some(element.id)
               /\ selectedIds' = {element.id}
       ELSE UNCHANGED <<textInput, editing, selectedIds>>
    /\ gesture' = NoGesture
    /\ UNCHANGED <<elements, currentTool, captured, resizing, resizeAnchor, isDrawing,
                   startPoint, dragOffset, selectionBox, history, redoStack, rotating,
                   rotateStartAngle, rotateStartRotation, nextId>>
    /\ Count

\* ---------------------------------------------------------------- toolbar
\* store.clearCanvas: the store gets a new, empty array
clearCanvas ==
    /\ Budget
    /\ GestureIdle
    /\ Commit(Heap(<<>>, history, redoStack))
    /\ captured' = IF captured.stale THEN captured ELSE [stale |-> TRUE, elems |-> elements]
    /\ gesture' = NoGesture
    /\ UNCHANGED <<currentTool, selectedIds, resizing, resizeAnchor, isDrawing, startPoint,
                   dragOffset, selectionBox, rotating, rotateStartAngle,
                   rotateStartRotation, textInput, editing, nextId>>
    /\ Count

\* the position in es of the element with the given id, or 0
IndexOfId(es, id) ==
    IF \E i \in 1..Len(es) : es[i].id = id
    THEN CHOOSE i \in 1..Len(es) : es[i].id = id /\ \A j \in 1..(i - 1) : es[j].id # id
    ELSE 0

\* variant: the update takes the element's place and the id is lost
AssignedAnew(element, updates) ==
    [f \in DOMAIN element |-> IF f \in DOMAIN updates THEN updates[f]
                              ELSE IF f = "id" THEN 0 ELSE element[f]]

\* Object.assign(element, updates)
Assigned(element, updates) ==
    [f \in DOMAIN element |-> IF f \in DOMAIN updates THEN updates[f] ELSE element[f]]

\* store.updateElement: the first element with the id takes the updates
updateElement(id, updates) ==
    /\ Budget
    /\ IF IndexOfId(elements, id) # 0
       THEN Commit(WriteObj(Here, elements[IndexOfId(elements, id)].ref,
                            LAMBDA el : Assigned(el, updates)))
       ELSE UNCHANGED <<elements, history, redoStack>>
    /\ gesture' = NoGesture
    /\ UNCHANGED <<currentTool, captured, selectedIds, resizing, resizeAnchor, isDrawing,
                   startPoint, dragOffset, selectionBox, rotating, rotateStartAngle,
                   rotateStartRotation, textInput, editing, nextId>>
    /\ Count

SetCurrentTool(tool) ==
    /\ Budget
    /\ GestureIdle
    /\ currentTool' = tool
    /\ gesture' = NoGesture
    /\ UNCHANGED <<elements, captured, selectedIds, resizing, resizeAnchor, isDrawing,
                   startPoint, dragOffset, selectionBox, history, redoStack, rotating,
                   rotateStartAngle, rotateStartRotation, textInput, editing, nextId>>
    /\ Count

\* one event handled, of the events the environment delivers
Next ==
    \/ KeyDelete
    \/ KeyUndo
    \/ KeyRedo
    \/ \E tool \in Tools : SetCurrentTool(tool)
    \/ \E point \in Pts : handleMouseDown(point)
    \/ \E point \in Pts : handleMouseMove(point)
    \/ handleMouseUp
    \/ \E content \in Contents : TypeText(content)
    \/ completeTextInput
    \/ \E point \in Pts : handleDoubleClick(point)
    \/ clearCanvas

Spec == Init /\ [][Next]_vars

\* Pointer-only sessions with the select and text tools, long enough to select
\* two elements with a box and drag them.  No position of PtsSelect lies on the
\* rotation handle of an element such a session builds, so the rotate branches
\* of the pointer handlers never run in them.
InitSelect == Setup /\ events = MaxSelectEvents

NextSelect ==
    \/ \E tool \in ToolsSelect : SetCurrentTool(tool)
    \/ \E point \in PtsSelect : MouseDownDraw(point)
    \/ \E point \in PtsSelect : MouseDownResize(point)
    \/ \E point \in PtsSelect : MouseDownHit(point)
    \/ \E point \in PtsSelect : MouseDownBox(point)
    \/ \E point \in PtsSelect : MoveBox(point)
    \/ \E point \in PtsSelect : MoveResize(point)
    \/ \E point \in PtsSelect : MoveDrag(point)
    \/ \E point \in PtsSelect : MoveDraw(point)
    \/ handleMouseUp

SpecSelect == InitSelect /\ [][NextSelect]_vars

\* Pointer-only sessions with the freehand tool, a shape tool and the select tool.
InitFreehand == Setup /\ events = MaxFreehandEvents

NextFreehand ==
    \/ \E tool \in ToolsFreehand : SetCurrentTool(tool)
    \/ \E point \in Pts : handleMouseDown(point)
    \/ \E point \in Pts : handleMouseMove(point)
    \/ handleMouseUp

SpecFreehand == InitFreehand /\ [][NextFreehand]_vars

\* Sessions in which Delete, undo and redo chords arrive at any time, also in
\* the middle of a gesture, with the freehand tool, a shape tool and the select
\* tool.  No position of PtsSelect lies on the rotation handle of an element
\* such a session builds, so the rotate branches never run in them.
InitInterrupt == Setup /\ events = MaxInterruptEvents

NextInterrupt ==
    \/ KeyDelete
    \/ KeyUndo
    \/ KeyRedo
    \/ \E tool \in ToolsInterrupt : SetCurrentTool(tool)
    \/ \E point \in PtsSelect : MouseDownDraw(point)
    \/ \E point \in PtsSelect : MouseDownResize(point)
    \/ \E point \in PtsSelect : MouseDownHit(point)
    \/ \E point \in PtsSelect : MouseDownBox(point)
    \/ \E point \in PtsSelect : MoveBox(point)
    \/ \E point \in PtsSelect : MoveResize(point)
    \/ \E point \in PtsSelect : MoveDrag(point)
    \/ \E point \in PtsSelect : MoveDraw(point)
    \/ handleMouseUp

SpecInterrupt == InitInterrupt /\ [][NextInterrupt]_vars

\* Sessions in which a caller of the store hands partial updates to
\* updateElement between the events of the canvas.
InitUpdate == Setup /\ events = MaxUpdateEvents

NextUpdate ==
    \/ KeyUndo
    \/ KeyRedo
    \/ \E tool \in ToolsUpdate : SetCurrentTool(tool)
    \/ \E point \in Pts : handleMouseDown(point)
    \/ \E point \in Pts : handleMouseMove(point)
    \/ handleMouseUp
    \/ \E content \in Contents : TypeText(content)
    \/ completeTextInput
    \/ \E id \in 1..MaxIds, updates \in Updates : updateElement(id, updates)

SpecUpdate == InitUpdate /\ [][NextUpdate]_vars

\* Sessions of the select and text tools around a box without extent.
InitDegenerate == Setup /\ events = MaxDegenerateEvents

NextDegenerate ==
    \/ \E tool \in ToolsSelect : SetCurrentTool(tool)
    \/ \E point \in PtsDegenerate : handleMouseDown(point)
    \/ \E point \in PtsDegenerate : handleMouseMove(point)
    \/ handleMouseUp

SpecDegenerate == InitDegenerate /\ [][NextDegenerate]_vars

\* Sessions that draw ellipses and pick them with the select tool.
InitEllipse == Setup /\ events = MaxEllipseEvents

NextEllipse ==
    \/ \E tool \in ToolsEllipse : SetCurrentTool(tool)
    \/ \E point \in PtsEllipse : MouseDownDraw(point)
    \/ \E point \in PtsEllipse : MouseDownResize(point)
    \/ \E point \in PtsEllipse : MouseDownHit(point)
    \/ \E point \in PtsEllipse : MouseDownBox(point)
    \/ \E point \in PtsEllipse : MoveBox(point)
    \/ \E point \in PtsEllipse : MoveResize(point)
    \/ \E point \in PtsEllipse : MoveDrag(point)
    \/ \E point \in PtsEllipse : MoveDraw(point)
    \/ handleMouseUp

SpecEllipse == InitEllipse /\ [][NextEllipse]_vars

\* ------------------------------------------------------------- properties
Mutating == {"draw", "drag", "resize", "rotate"}

\* The heap after a step
There == Heap(elements', history', redoStack')

\* C1: after a complete gesture (pointer-down, any pointer-moves, pointer-up)
\* that draws, drags, resizes or rotates, one undo restores the collection
\* (ids, types, points, rotation, text, order) to its value before the
\* pointer-down: undo applied to the state the gesture left gives that value,
\* and so does the state an undo chord has produced.
C1_UndoRestoresPreGesture ==
    /\ (gesture.phase = "done" /\ gesture.kind \in Mutating)
          => Strip(undo(Here).e) = gesture.pre
    /\ (gesture.phase = "undone" /\ gesture.kind \in Mutating)
          => Strip(elements) = gesture.pre

\* an undo has run after a gesture on an existing element that had changed it
C1_Witness ==
    /\ gesture.phase = "undone"
    /\ gesture.kind \in {"drag", "resize", "rotate"}
    /\ redoStack # <<>>
    /\ Strip(Last(redoStack)) # gesture.pre
    /\ Strip(elements) = gesture.pre

RECURSIVE UndoN(_, _)
UndoN(S, n) == IF n = 0 THEN S ELSE UndoN(undo(S), n - 1)

\* C3: history is linear: as many undos as the undo stack holds entries leave
\* the collection empty and the undo stack empty; this holds in every state
\* reached from the empty board, so after N pushes and no undo in particular.
C3_HistoryLinear ==
    LET S == UndoN(Here, Len(history))
    IN S.e = <<>> /\ S.h = <<>>

\* two pushed snapshots have been undone one after the other
C3_Witness ==
    /\ history = <<>>
    /\ elements = <<>>
    /\ Len(redoStack) >= 2
    /\ nextId >= 1

\* C4: every push empties the redo stack: after a pointer-down that starts a
\* gesture, or a delete of a selection, the redo stack is empty and a redo
\* changes neither the collection nor the undo stack.
C4_PushEmptiesRedo ==
    [][ \/ redoStack' = <<>> /\ redo(There) = There
        \/ ~ \/ \E point \in Pts : handleMouseDown(point)
             \/ ~Suppressed /\ selectedIds # {} /\ KeyDelete ]_vars

\* a gesture has started where the redo stack held an undone state
C4_Witness ==
    /\ gesture.phase = "active"
    /\ gesture.kind \in Mutating
    /\ gesture.redo > 0
    /\ redoStack = <<>>

\* C5: undo on an empty undo stack and redo on an empty redo stack change
\* nothing: the collection, both stacks and the selection stay as they are.
C5_EmptyStackNoOp ==
    [][ /\ (history = <<>> /\ KeyUndo)
            => UNCHANGED <<elements, history, redoStack, selectedIds>>
        /\ (redoStack = <<>> /\ KeyRedo)
            => UNCHANGED <<elements, history, redoStack, selectedIds>> ]_vars

\* Everything is undone and the chords are not suppressed: a further undo is
\* handled here and, changing nothing, leaves this very state.
C5_Witness ==
    /\ history = <<>>
    /\ redoStack # <<>>
    /\ selectedIds # {}
    /\ ~Suppressed

\* C6: with a non-empty undo stack, undo installs the popped snapshot and puts
\* the collection on the redo stack; a redo right after it gives back the
\* collection, the undo stack and the redo stack of before the undo; the
\* number of snapshots on both stacks together stays the same throughout.
C6_RedoMirrorsUndo ==
    [][ (~Suppressed /\ history # <<>> /\ KeyUndo)
          => /\ Strip(elements') = Strip(Last(history))
             /\ StripStack(history') = StripStack(Front(history))
             /\ StripStack(redoStack') = Append(StripStack(redoStack), Strip(elements))
             /\ Len(history') + Len(redoStack') = Len(history) + Len(redoStack)
             /\ Strip(redo(There).e) = Strip(elements)
             /\ StripStack(redo(There).h) = StripStack(history)
             /\ StripStack(redo(There).r) = StripStack(redoStack)
             /\ Len(redo(There).h) + Len(redo(There).r) = Len(history) + Len(redoStack) ]_vars

\* an undo has run with snapshots left below the one it popped
C6_Witness ==
    /\ gesture.phase = "undone"
    /\ history # <<>>
    /\ redoStack # <<>>
    /\ elements # <<>>
    /\ Strip(Last(redoStack)) # Strip(elements)

\* C7: snapshots are independent of the live collection: no step changes a
\* snapshot that stays on the undo stack or on the redo stack, whether it
\* assigns a line endpoint in place, replaces a points array, or restores.
C7_SnapshotsIndependent ==
    [][ /\ \A i \in 1..Min2(Len(history), Len(history')) :
              Strip(history'[i]) = Strip(history[i])
        /\ \A i \in 1..Min2(Len(redoStack), Len(redoStack')) :
              Strip(redoStack'[i]) = Strip(redoStack[i]) ]_vars

\* a resize has assigned an endpoint of a line whose snapshot is on the stack
C7_Witness ==
    /\ gesture.phase = "active"
    /\ gesture.kind = "resize"
    /\ history # <<>>
    /\ selectedElements # <<>>
    /\ selectedElements[1].type = "line"
    /\ Strip(elements) # gesture.pre
    /\ Strip(Last(history)) = gesture.pre

C9_SuppressedWhileEditing ==
    [][ (textInput.visible /\ (KeyDelete \/ KeyUndo \/ KeyRedo))
          => UNCHANGED <<elements, selectedIds, history, redoStack>> ]_vars

\* The overlay is open over a selected text element with a snapshot to undo:
\* the chords are handled here and, changing nothing, leave this very state.
C9_Witness ==
    /\ textInput.visible
    /\ selectedIds # {}
    /\ selectedElements # <<>>
    /\ history # <<>>
    /\ elements # <<>>

\* C10: a pointer-down with the select tool and one selected element tests the
\* rotation handle of that element first and its resize anchors second: on
\* the handle the canvas is Rotating, on an anchor it is Resizing with the
\* index of that anchor; either way the selection stays and no element is
\* hit-tested, so no drag starts and no selection box opens.
C10_HandleBeforeAnchorBeforeHit ==
    [][ \A point \in Pts :
          (/\ currentTool = "select" /\ SingleSelected # <<>>
           /\ startPoint' = Some(point) /\ handleMouseDown(point))
            => IF isOnRotateAnchor(point, SingleSelected[1])
               THEN /\ rotating' /\ ~resizing'
                    /\ selectedIds' = selectedIds
                    /\ dragOffset' = Null /\ selectionBox' = Null
               ELSE IF hitAnchorPoint(point, SingleSelected[1]) # NoAnchor
               THEN /\ resizing' /\ ~rotating'
                    /\ resizeAnchor' = hitAnchorPoint(point, SingleSelected[1])
                    /\ selectedIds' = selectedIds
                    /\ dragOffset' = Null /\ selectionBox' = Null
               ELSE TRUE ]_vars

\* the canvas is Rotating although an element that is not selected lies under
\* the pointer
C10_Witness ==
    /\ rotating
    /\ gesture.phase = "active"
    /\ gesture.kind = "rotate"
    /\ IsSet(startPoint)
    /\ \E i \in 1..Len(elements) :
          /\ elements[i].id \notin selectedIds
          /\ hitTestPointInElement(Val(startPoint), elements[i])

\* the elements of the collection under a point, by index
HitsAt(point) == {i \in 1..Len(elements) : hitTestPointInElement(point, elements[i])}

\* C11: a pointer-down with the select tool that is on no handle or anchor of
\* a single selected element and has elements under it takes the one inserted
\* last among them; the selection stays if it holds two or more ids and that
\* element is one of them, and becomes that element alone otherwise; the
\* canvas is Dragging and no element has changed.
C11_TopmostHitDrags ==
    [][ \A point \in Pts :
          (/\ currentTool = "select" /\ startPoint' = Some(point)
           /\ ~OnRotate(point) /\ ~OnAnchor(point)
           /\ HitsAt(point) # {}
           /\ handleMouseDown(point))
            => LET top == CHOOSE i \in HitsAt(point) : \A j \in HitsAt(point) : j <= i
               IN /\ selectedIds' = IF Cardinality(selectedIds) >= 2
                                       /\ elements[top].id \in selectedIds
                                    THEN selectedIds
                                    ELSE {elements[top].id}
                  /\ IsSet(dragOffset')
                  /\ ~resizing' /\ ~rotating' /\ ~isDrawing' /\ ~IsSet(selectionBox')
                  /\ Strip(elements') = Strip(elements) ]_vars

\* a pointer-down over two elements of a selection of two has started a drag
C11_Witness ==
    /\ gesture.phase = "active"
    /\ gesture.kind = "drag"
    /\ IsSet(dragOffset)
    /\ Cardinality(selectedIds) = 2
    /\ Cardinality(HitsAt(Val(gesture.at))) = 2
    /\ \A i \in HitsAt(Val(gesture.at)) : elements[i].id \in selectedIds

\* C12: a select-tool pointer-down that is on no handle or anchor of the single
\* selected element and hits no element empties the selection and starts a
\* selection box whose start and end are both the pointer position; no other
\* mode is entered and no element is changed.
C12_BlankStartsBox ==
    [][ \A point \in Pts :
          (/\ currentTool = "select"
           /\ startPoint' = Some(point)
           /\ ~OnRotate(point) /\ ~OnAnchor(point)
           /\ HitsAt(point) = {}
           /\ handleMouseDown(point))
            => /\ selectedIds' = {}
               /\ selectionBox' = Some([start |-> point, end |-> point])
               /\ ~IsSet(dragOffset') /\ ~resizing' /\ ~rotating' /\ ~isDrawing'
               /\ Strip(elements') = Strip(elements) ]_vars

\* a box has just been started on blank space while elements exist
C12_Witness ==
    /\ gesture.phase = "active" /\ gesture.kind = "box"
    /\ selectionBox = Some([start |-> Val(gesture.at), end |-> Val(gesture.at)])
    /\ elements # <<>>
    /\ HitsAt(Val(gesture.at)) = {}
    /\ selectedIds = {}

\* the ids held by the snapshots of a stack
IdsOf(st) == UNION {{st[k][i].id : i \in 1..Len(st[k])} : k \in 1..Len(st)}

\* C13: a pointer-down with the text tool or a drawing tool appends exactly one
\* element at the end of the collection: its type is the tool, its id is used
\* by no element of the collection or of a snapshot, its points are twice the
\* pointer position, the elements that were there are unchanged, the drawing
\* mode is entered, and the selection becomes the new element alone, or empty
\* when the tool is freehand.
C13_DrawDownAppendsOne ==
    [][ \A point \in Pts :
          (/\ currentTool # "select"
           /\ startPoint' = Some(point)
           /\ handleMouseDown(point))
            => /\ Len(elements') = Len(elements) + 1
               /\ Strip(Front(elements')) = Strip(elements)
               /\ Last(elements').type = currentTool
               /\ Last(elements').id \notin
                     {elements[i].id : i \in 1..Len(elements)}
                       \cup IdsOf(history) \cup IdsOf(redoStack)
               /\ Last(elements').points = <<point, point>>
               /\ isDrawing'
               /\ selectedIds' = IF currentTool = "freehand" THEN {}
                                  ELSE {Last(elements').id} ]_vars

\* a freehand stroke has just been started on top of an earlier shape
C13_Witness ==
    /\ gesture.phase = "active" /\ gesture.kind = "draw"
    /\ isDrawing
    /\ Len(elements) = 2
    /\ elements[1].type = "rectangle"
    /\ elements[2].type = "freehand"
    /\ elements[2].points = <<Val(gesture.at), Val(gesture.at)>>
    /\ selectedIds = {}

\* the points of a sequence moved by (dx, dy)
Shifted(pts, dx, dy) == [i \in 1..Len(pts) |-> Pt(pts[i].x + dx, pts[i].y + dy)]

\* during a drag every selected element stands at its position before the
\* pointer-down plus the pointer's displacement since then, every other element
\* where it was
DraggedBy(es, pre, ids, from, to) ==
    /\ Len(es) = Len(pre)
    /\ \A i \in 1..Len(es) :
          es[i].points = IF es[i].id \in ids
                         THEN Shifted(pre[i].points, to.x - from.x, to.y - from.y)
                         ELSE pre[i].points

\* C14: while a selection is dragged, each pointer-move translates every point
\* of every selected element by the pointer's delta since the previous pointer
\* event and leaves the other elements unchanged; so after the moves of a drag
\* that went down at p0 and has reached pk, every point of a selected element
\* is its value before the drag plus (pk - p0).
C14_DragTranslatesSelection ==
    [][ \A point \in PtsSelect :
          (/\ currentTool = "select"
           /\ gesture.phase = "active" /\ gesture.kind = "drag"
           /\ startPoint' = Some(point)
           /\ handleMouseMove(point))
            => /\ Len(elements') = Len(elements)
               /\ \A i \in 1..Len(elements) :
                     elements'[i].points =
                       IF elements[i].id \in selectedIds
                       THEN Shifted(elements[i].points, point.x - Val(startPoint).x,
                                    point.y - Val(startPoint).y)
                       ELSE elements[i].points
               /\ DraggedBy(Strip(elements'), gesture.pre, selectedIds,
                             Val(gesture.at), point) ]_vars

\* two selected elements have been dragged away from where they were
C14_Witness ==
    /\ gesture.phase = "active" /\ gesture.kind = "drag"
    /\ Cardinality(selectedIds) = 2
    /\ Len(elements) = 2
    /\ startPoint # gesture.at
    /\ \A i \in 1..2 : elements[i].points # gesture.pre[i].points
    /\ DraggedBy(Strip(elements), gesture.pre, selectedIds, Val(gesture.at), Val(startPoint))

\* s is the beginning of t
IsPrefix(s, t) == Len(s) <= Len(t) /\ SubSeq(t, 1, Len(s)) = s

\* C15: while a freehand stroke is drawn, each pointer-move appends exactly one
\* point, the pointer position, at the end of the stroke's points and changes
\* no earlier point and no other element; and until the next pointer-down has
\* put the canvas into another mode, no step takes a point away from a freehand
\* element: what it had stays the beginning of what it has.
C15_FreehandAppendOnly ==
    [][ /\ \A point \in Pts :
            (/\ gesture.phase = "active" /\ gesture.kind = "draw"
             /\ currentTool = "freehand"
             /\ gesture' = gesture
             /\ handleMouseMove(point))
              => /\ Last(elements').points = Append(Last(elements).points, point)
                 /\ Strip(Front(elements')) = Strip(Front(elements))
        /\ (/\ ~IsSet(dragOffset) /\ ~resizing /\ ~rotating
            /\ ~(GestureIdle /\ ~GestureIdle'))
             => \A i \in 1..Len(elements) :
                   elements[i].type = "freehand"
                     => /\ i <= Len(elements')
                        /\ elements'[i].id = elements[i].id
                        /\ IsPrefix(elements[i].points, elements'[i].points) ]_vars

\* a stroke that two pointer-moves have extended by two different positions
C15_Witness ==
    /\ gesture.phase = "active" /\ gesture.kind = "draw"
    /\ elements # <<>>
    /\ Last(elements).type = "freehand"
    /\ Len(Last(elements).points) = 4
    /\ Last(elements).points[1] = Val(gesture.at)
    /\ Last(elements).points[2] = Val(gesture.at)
    /\ Last(elements).points[3] # Last(elements).points[4]

\* no gesture is in progress: no mode flag, drag offset, box or start point is set
Rest == GestureIdle /\ startPoint = Null

\* C16: a pointer-up always leaves the canvas at rest (not drawing, resizing or
\* rotating, no drag offset, no selection box, no start point); only a
\* pointer-down ends the rest; and a pointer-move that arrives at rest changes
\* no element, not the selection and neither history stack.
C16_UpResetsToIdle ==
    [][ /\ Rest' \/ ~handleMouseUp
        /\ (Rest /\ ~Rest') => \E point \in Pts : handleMouseDown(point)
        /\ \/ UNCHANGED <<elements, selectedIds, history, redoStack>>
           \/ ~Rest
           \/ \A point \in Pts : ~handleMouseMove(point) ]_vars

\* a gesture has just ended with elements, a selection and snapshots in place
C16_Witness ==
    /\ gesture.phase = "done"
    /\ Rest
    /\ elements # <<>>
    /\ selectedIds # {}
    /\ history # <<>>

\* C17: the pointer-up that ends a draw, a resize or a drag which has changed
\* the geometry of the collection commits a history snapshot: the undo stack
\* is one entry longer after the pointer-up than before it.
C17_UpCommitsSnapshot ==
    [][ (/\ gesture.phase = "active"
         /\ gesture.kind \in {"draw", "resize", "drag"}
         /\ Strip(elements) # gesture.pre
         /\ gesture'.phase = "done"
         /\ handleMouseUp)
          => Len(history') = Len(history) + 1 ]_vars

\* the ids of the elements of es whose bounding box over all their points
\* overlaps the rectangle spanned by a and b, borders included
Overlapping(es, a, b) ==
    {es[i].id : i \in {j \in 1..Len(es) :
        /\ SetMax(Xs(es[j].points)) >= Min2(a.x, b.x)
        /\ SetMin(Xs(es[j].points)) <= Max2(a.x, b.x)
        /\ SetMax(Ys(es[j].points)) >= Min2(a.y, b.y)
        /\ SetMin(Ys(es[j].points)) <= Max2(a.y, b.y)}}

\* C18 as stated: while a selection box is open, every pointer-move sets the
\* box end to the pointer and makes the selection the set of elements whose
\* bounding box intersects the box.
C18_MoveRecomputesSelection ==
    [][ \A point \in Pts :
          (/\ IsSet(selectionBox) /\ IsSet(startPoint)
           /\ handleMouseMove(point))
            => /\ Val(selectionBox').end = point
               /\ selectedIds' = Overlapping(elements', Val(selectionBox).start, point) ]_vars

\* C18 as amended: while a selection box is open, every pointer-move sets the
\* box end to the pointer and changes nothing else: the box start, the
\* elements, the stacks and the selection stay as they are, so the selection,
\* emptied by the pointer-down, is still empty while only moves have followed.
C18_MoveExtendsBoxOnly ==
    [][ \A point \in Pts :
          (/\ IsSet(selectionBox) /\ IsSet(startPoint)
           /\ handleMouseMove(point))
            => /\ selectionBox' = Some([start |-> Val(selectionBox).start, end |-> point])
               /\ UNCHANGED <<elements, history, redoStack, selectedIds>>
               /\ gesture.phase = "active" => selectedIds' = {} ]_vars

\* a box has been stretched over an element and nothing is selected
C18_Witness ==
    /\ gesture.phase = "active" /\ gesture.kind = "box"
    /\ IsSet(selectionBox)
    /\ Val(selectionBox).start = Val(gesture.at)
    /\ Val(selectionBox).end # Val(selectionBox).start
    /\ Overlapping(elements, Val(selectionBox).start, Val(selectionBox).end) # {}
    /\ selectedIds = {}

\* C19: the pointer-up that ends a box selection makes the selection exactly
\* the ids of the elements of the live collection, as it is at that moment,
\* whose bounding box over all their points (rotation ignored) overlaps the
\* rectangle spanned by the box start and end, borders included, and discards
\* the box.
C19_BoxSelectsLiveOverlap ==
    [][ (/\ IsSet(selectionBox)
         /\ handleMouseUp)
          => /\ selectedIds' = Overlapping(elements, Val(selectionBox).start,
                                           Val(selectionBox).end)
             /\ selectionBox' = Null ]_vars

\* C20: clearing the canvas empties the collection and the selection together:
\* after clearCanvas the collection is empty and so is the selection set the
\* pointer and keyboard handlers work with.
C20_ClearEmptiesSelection ==
    [][ clearCanvas => (elements' = <<>> /\ selectedIds' = {}) ]_vars

\* C21: committing the text overlay writes its content to the text of the
\* element the overlay was opened for (by the pointer-up of a text draw or by
\* a double-click on a text element), changes no other element's text, and
\* closes the overlay.
C21_CommitWritesEdited ==
    [][ (/\ textInput.visible
         /\ IsSet(editing)
         /\ completeTextInput)
          => /\ ~textInput'.visible
             /\ Len(elements') = Len(elements)
             /\ \A i \in 1..Len(elements) :
                   elements'[i].text = IF elements[i].id = Val(editing)
                                       THEN textInput.content
                                       ELSE elements[i].text ]_vars

\* C22: the pointer-up that ends a drawing gesture of the text tool (a
\* pointer-down, pointer-moves, the pointer-up) opens the text overlay with
\* empty content at the bounding box of the new element (x and y the smaller
\* coordinates, width and height the absolute extents) and leaves the new
\* element as the selection; the pointer-up of anything but a text drawing
\* leaves the overlay as it is.
C22_TextDrawOpensOverlay ==
    [][ /\ (/\ gesture.phase = "active" /\ gesture.kind = "draw"
            /\ currentTool = "text"
            /\ gesture'.phase = "done"
            /\ handleMouseUp)
             => LET new == Last(elements)
                    xs == {new.points[1].x, new.points[2].x}
                    ys == {new.points[1].y, new.points[2].y}
                IN /\ Len(elements) = Len(gesture.pre) + 1
                   /\ new.type = "text"
                   /\ textInput'.visible
                   /\ textInput'.content = ""
                   /\ textInput'.x = SetMin(xs) /\ textInput'.y = SetMin(ys)
                   /\ textInput'.width = SetMax(xs) - SetMin(xs)
                   /\ textInput'.height = SetMax(ys) - SetMin(ys)
                   /\ selectedIds' = {new.id}
                   /\ Strip(elements') = Strip(elements)
        /\ \/ textInput' = textInput
           \/ isDrawing /\ currentTool = "text"
           \/ ~handleMouseUp ]_vars

\* the overlay stands on a text element that was drawn from right to left
C22_Witness ==
    /\ gesture.phase = "done" /\ gesture.kind = "draw"
    /\ textInput.visible /\ textInput.content = ""
    /\ elements # <<>>
    /\ Last(elements).type = "text"
    /\ editing = Some(Last(elements).id)
    /\ selectedIds = {Last(elements).id}
    /\ textInput.x < Last(elements).points[1].x
    /\ textInput.y < Last(elements).points[1].y
    /\ textInput.width > 0 /\ textInput.height > 0

\* C23: a pointer-up, and so the pointer-up that ends a drawing gesture, leaves
\* the select tool current when the tool was a drawing tool other than
\* freehand, leaves freehand current after a freehand stroke, and leaves
\* select current when select was the tool.
C23_UpReturnsToSelect ==
    [][ \/ currentTool' = IF currentTool = "freehand" THEN "freehand" ELSE "select"
        \/ ~handleMouseUp ]_vars

\* a freehand stroke has been finished and the tool is still freehand
C23_Witness ==
    /\ gesture.phase = "done" /\ gesture.kind = "draw"
    /\ currentTool = "freehand"
    /\ elements # <<>>
    /\ Last(elements).type = "freehand"
    /\ Len(Last(elements).points) > 2
    /\ Rest

\* the types that are resized as a box
BoxTypes == {"rectangle", "ellipse", "diamond", "text"}

\* C24: a resize move on an unrotated rectangle, ellipse, diamond or text
\* element, whatever the order of its two stored points, leaves the anchor
\* opposite to the dragged one, anchor (i + 4) mod 8 of the min/max box, where
\* it was.
C24_OppositeAnchorFixed ==
    [][ \A point \in Pts :
          (/\ resizing /\ resizeAnchor # NoAnchor
           /\ Cardinality(selectedIds) = 1
           /\ selectedElements # <<>>
           /\ selectedElements[1].type \in BoxTypes
           /\ selectedElements[1].rotation = 0
           /\ handleMouseMove(point))
            => LET i == IndexOfId(elements, selectedElements[1].id)
                   opposite == ((resizeAnchor + 4) % 8) + 1
               IN BoxAnchors2(elements'[i])[opposite] = BoxAnchors2(elements[i])[opposite] ]_vars

\* the freehand elements of a collection, without object identities
Strokes(es) == SelectSeq(Strip(es), LAMBDA el : el.type = "freehand")

\* C25: a freehand element has no anchors: while the selection is a single
\* freehand element no pointer-down starts a resize or a rotation, and no move
\* of a resize or a rotation changes the rotation or the points of a freehand
\* element.
C25_FreehandHasNoAnchors ==
    [][ /\ \A point \in Pts :
            (/\ SingleSelected # <<>>
             /\ SingleSelected[1].type = "freehand"
             /\ startPoint' = Some(point)
             /\ handleMouseDown(point))
              => ~resizing' /\ ~rotating'
        /\ \/ Strokes(elements') = Strokes(elements)
           \/ ~(resizing \/ rotating)
           \/ \A point \in Pts : ~handleMouseMove(point) ]_vars

\* C26: in every reachable state every element has at least two points and
\* every element that is not a freehand stroke has exactly two, whatever draw,
\* drag and resize gestures and Delete, undo and redo chords have been handled,
\* the chords also in the middle of a gesture.
C26_PointCounts ==
    \A i \in 1..Len(elements) :
       /\ Len(elements[i].points) >= 2
       /\ elements[i].type # "freehand" => Len(elements[i].points) = 2

\* an undo in the middle of a freehand stroke has left a line as the last
\* element, and the next move of the stroke has rewritten the line's points
C26_Witness ==
    /\ isDrawing /\ currentTool = "freehand"
    /\ redoStack # <<>>
    /\ elements # <<>>
    /\ Last(elements).type = "line"
    /\ Last(elements).points[1] = Val(startPoint)
    /\ Last(elements).points[2] # Val(startPoint)
    /\ C26_PointCounts

\* the ids and types of a collection, in order
IdTypes(es) == [i \in 1..Len(es) |-> <<es[i].id, es[i].type>>]

\* the operations that mutate elements in place
MutatesInPlace ==
    \/ \E point \in Pts : handleMouseMove(point)
    \/ completeTextInput
    \/ \E id \in 1..MaxIds, updates \in Updates : updateElement(id, updates)

Leq(a, b) == a # NaN /\ b # NaN /\ a <= b

\* a resize move at the point acts on the single selected box
ResizesBox(point) ==
    /\ resizing /\ resizeAnchor # NoAnchor
    /\ Cardinality(selectedIds) = 1
    /\ selectedElements # <<>>
    /\ selectedElements[1].type \in BoxTypes
    /\ MoveResize(point)

\* C28: after any resize move on a rectangle, ellipse, diamond or text
\* element, rotated or not, the stored pair is (min-corner, max-corner):
\* points[0].x <= points[1].x and points[0].y <= points[1].y.
C28_ResizeStoresMinMax ==
    [][ \A point \in Pts \cup PtsDegenerate :
          ResizesBox(point)
            => LET el == elements'[IndexOfId(elements, selectedElements[1].id)]
               IN /\ Leq(el.points[1].x, el.points[2].x)
                  /\ Leq(el.points[1].y, el.points[2].y) ]_vars

\* C29: after any resize move on a rectangle, ellipse, diamond or text
\* element, rotated or not, the width and the height of the stored box are both
\* at least 10 pixels.
C29_ResizeKeepsMinSize ==
    [][ \A point \in Pts \cup PtsDegenerate :
          ResizesBox(point)
            => LET el == elements'[IndexOfId(elements, selectedElements[1].id)]
               IN /\ Leq(el.points[1].x + MinSize, el.points[2].x)
                  /\ Leq(el.points[1].y + MinSize, el.points[2].y) ]_vars

\* the angle of a point about the center of an element's first two points, in
\* quarter turns
AngleAbout(point, element) ==
    Atan2Q(2 * point.y - (element.points[1].y + element.points[2].y),
           2 * point.x - (element.points[1].x + element.points[2].x))

\* C30: after every pointer-move of a rotation the rotation of the selected
\* element is the rotation it had at the pointer-down plus the angle of the
\* pointer about the element's center minus the angle of the pointer-down
\* position about that center; it is computed from the pointer and the two
\* values captured at the pointer-down alone.
C30_RotateWithoutDrift ==
    [][ \A point \in Pts \cup PtsDegenerate :
          (/\ rotating /\ Cardinality(selectedIds) = 1
           /\ selectedElements # <<>>
           /\ MoveRotate(point))
            => LET el == selectedElements[1]
                   now == elements'[IndexOfId(elements, el.id)]
               IN /\ now.rotation = rotateStartRotation
                                      + (AngleAbout(point, el) - rotateStartAngle)
                  /\ (gesture.phase = "active" /\ gesture.kind = "rotate")
                       => LET before == gesture.pre[IndexOfId(gesture.pre, el.id)]
                          IN now.rotation = before.rotation
                                + (AngleAbout(point, before)
                                   - AngleAbout(Val(gesture.at), before)) ]_vars

\* a move of a rotation that started from a rotated element has turned it
C30_Witness ==
    /\ rotating /\ Cardinality(selectedIds) = 1
    /\ gesture.phase = "active" /\ gesture.kind = "rotate"
    /\ selectedElements # <<>>
    /\ rotateStartRotation # 0
    /\ selectedElements[1].rotation # rotateStartRotation
    /\ gesture.pre[IndexOfId(gesture.pre, selectedElements[1].id)].rotation = rotateStartRotation

\* C31: an unrotated line element is hit by a point exactly when the distance
\* from the point to the segment between its two endpoints is below 8; a line
\* of length zero is hit by no point.
C31_LineHitIsSegmentDistance ==
    \A i \in 1..Len(elements) : \A point \in Pts :
        (elements[i].type = "line" /\ elements[i].rotation = 0)
          => (hitTestPointInElement(point, elements[i])
                <=> /\ elements[i].points[1] # elements[i].points[2]
                    /\ NearSegment2(Dbl(point), Dbl(elements[i].points[1]),
                                    Dbl(elements[i].points[2])))

\* an ellipse with the given stored points, as hitTestPointInElement reads it
EllipseOf(start, end) ==
    [type |-> "ellipse", points |-> <<start, end>>, rotation |-> 0]

\* the rule of the ellipse for a point and the two stored points, in integers:
\* with c the center and rx, ry the radii of the box the points span,
\* (dx / rx)^2 + (dy / ry)^2 <= 1 and both radii positive
InsideEllipse(point, a, b) ==
    LET rx2 == Max2(a.x, b.x) - Min2(a.x, b.x)
        ry2 == Max2(a.y, b.y) - Min2(a.y, b.y)
        dx2 == 2 * point.x - (Min2(a.x, b.x) + Max2(a.x, b.x))
        dy2 == 2 * point.y - (Min2(a.y, b.y) + Max2(a.y, b.y))
    IN /\ rx2 > 0 /\ ry2 > 0
       /\ (dx2 * ry2) * (dx2 * ry2) + (dy2 * rx2) * (dy2 * rx2) <= (rx2 * ry2) * (rx2 * ry2)

\* points tested against every live ellipse
PtsTested == PtsEllipse \cup {Pt(52, 76), Pt(53, 76), Pt(40, 80), Pt(40, 81), Pt(30, 50)}

\* C32: an unrotated ellipse with its two points in either order is hit by a
\* point exactly when (dx/rx)^2 + (dy/ry)^2 <= 1 about its center, the outline
\* included, and by no point when a radius is 0; for the ellipse from (0,0) to
\* (100,50), stored either way, (50,25) and (100,25) hit and (101,25) does not.
C32_EllipseHit ==
    /\ \A i \in 1..Len(elements) : \A point \in PtsTested :
          (elements[i].type = "ellipse" /\ elements[i].rotation = 0)
            => (hitTestPointInElement(point, elements[i])
                  <=> InsideEllipse(point, elements[i].points[1], elements[i].points[2]))
    /\ \A e \in {EllipseOf(Pt(0, 0), Pt(100, 50)), EllipseOf(Pt(100, 50), Pt(0, 0))} :
          /\ hitTestPointInElement(Pt(50, 25), e)
          /\ hitTestPointInElement(Pt(100, 25), e)
          /\ ~hitTestPointInElement(Pt(101, 25), e)

\* two live ellipses, one stored from its bottom-right to its top-left corner
\* and hit on its outline, the other without height and hit nowhere
C32_Witness ==
    /\ Len(elements) = 2
    /\ \E i, j \in 1..2 :
          /\ elements[i].type = "ellipse" /\ elements[j].type = "ellipse"
          /\ elements[i].points = <<Pt(60, 80), Pt(20, 40)>>
          /\ hitTestPointInElement(Pt(60, 60), elements[i])
          /\ ~hitTestPointInElement(Pt(61, 60), elements[i])
          /\ elements[j].points[1].y = elements[j].points[2].y
          /\ elements[j].points[1].x # elements[j].points[2].x
          /\ \A point \in PtsTested : ~hitTestPointInElement(point, elements[j])

\* the ids of the live collection
LiveIds == {elements[i].id : i \in 1..Len(elements)}

\* the selection holds ids, none of them of a live element
SelectionStale == selectedIds # {} /\ selectedIds \cap LiveIds = {}

\* C33: a lookup by id that fails is a no-op: deleteElement and updateElement
\* with an id that is not in the collection leave the collection as it is, and
\* while the selection holds only ids that are no longer in the collection a
\* pointer-down with the select tool, a pointer-move and a Delete key press
\* remove or modify no element.
C33_FailedLookupsAreNoOps ==
    [][ /\ \A id \in 1..(MaxIds + 1) :
            id \notin LiveIds
              => /\ deleteElement(Here, id).e = elements
                 /\ \A updates \in Updates :
                       updateElement(id, updates) => elements' = elements
        /\ SelectionStale
             => /\ KeyDelete => Strip(elements') = Strip(elements)
                /\ \A point \in Pts :
                      /\ (currentTool = "select" /\ handleMouseDown(point))
                           => Strip(elements') = Strip(elements)
                      /\ handleMouseMove(point) => Strip(elements') = Strip(elements) ]_vars

\* C34: every id in the selection is the id of an element of the live
\* collection, in every reachable state.
C34_SelectionIsLive == selectedIds \subseteq LiveIds

C36_BlankClickSelectsNothing ==
    [][ (/\ gesture.phase = "active" /\ gesture.kind = "box"
         /\ currentTool = "select"
         /\ selectionBox = Some([start |-> Val(gesture.at), end |-> Val(gesture.at)])
         /\ HitsAt(Val(gesture.at)) = {}
         /\ handleMouseUp)
          => selectedIds' = {} ]_vars

\* C37: a gesture of the select tool that has changed no element (a click that
\* selects, a click on blank canvas, a box selection) has added no entry to
\* the undo stack and has taken none from the redo stack when its pointer-up
\* is done.
C37_SelectGestureKeepsStacks ==
    [][ (/\ gesture.phase = "active" /\ gesture.kind # "draw"
         /\ currentTool = "select"
         /\ Strip(elements) = gesture.pre
         /\ handleMouseUp)
          => /\ Strip(elements') = gesture.pre
             /\ Len(history') = gesture.hist
             /\ Len(redoStack') = gesture.redo ]_vars

\* C38: a pointer-up or a mouseleave that arrives while no gesture is in
\* progress changes nothing: the collection, the selection, the undo and redo
\* stacks and the current tool stay as they are.
C38_IdleUpChangesNothing ==
    [][ (GestureIdle /\ handleMouseUp)
          => UNCHANGED <<elements, selectedIds, history, redoStack, currentTool>> ]_vars

\* C39: at most one of Drawing (isDrawing), Resizing (resizing), Rotating
\* (rotating), Dragging (dragOffset set) and BoxSelecting (selectionBox set) is
\* active in a reachable state.
C39_OneGestureAtATime ==
    Cardinality({m \in {"drawing", "resizing", "rotating", "dragging", "box"} :
                   CASE m = "drawing" -> isDrawing
                     [] m = "resizing" -> resizing
                     [] m = "rotating" -> rotating
                     [] m = "dragging" -> IsSet(dragOffset)
                     [] OTHER -> IsSet(selectionBox)}) <= 1

\* the rotations of a collection, in order
Rotations(es) == [i \in 1..Len(es) |-> es[i].rotation]

\* a collection with every rotation set to 0
Unturned(es) == [i \in 1..Len(es) |-> [Strip(es)[i] EXCEPT !.rotation = 0]]

\* C40: a move of a rotation changes the rotation of the single selected
\* element and nothing else: not its points, no attribute of another
\* element, not the order of the collection and not the selection; a move of
\* a drag or of a box selection changes no rotation.
C40_RotateChangesRotationOnly ==
    [][ \A point \in Pts \cup PtsDegenerate :
          /\ (rotating /\ MoveRotate(point))
               => /\ selectedIds' = selectedIds
                  /\ Unturned(elements') = Unturned(elements)
                  /\ \A i \in 1..Len(elements) :
                        elements[i].id \notin selectedIds
                          => elements'[i].rotation = elements[i].rotation
          /\ (MoveDrag(point) \/ MoveBox(point))
               => Rotations(elements') = Rotations(elements) ]_vars

\* a rotation has turned the selected one of two elements, the other one is as
\* it was before the gesture
C40_Witness ==
    /\ rotating /\ gesture.phase = "active" /\ gesture.kind = "rotate"
    /\ Len(elements) = 2 /\ Cardinality(selectedIds) = 1
    /\ Unturned(elements) = Unturned(gesture.pre)
    /\ \E i, j \in 1..2 :
          /\ elements[i].id \in selectedIds /\ elements[j].id \notin selectedIds
          /\ elements[i].rotation # gesture.pre[i].rotation
          /\ elements[j].rotation = gesture.pre[j].rotation

====
